---------------------------- MODULE Spec2Model ----------------------------
(***************************************************************************)
(* A model of the ABAssist portal (src/app.py, src/lsv.py): the XML        *)
(* template generator (placeholder extraction, rendering, generation log)  *)
(* and the transaction reversal screen.                                    *)
(*                                                                         *)
(* Text is a sequence of one-character strings.  Python's None is the      *)
(* record None; a returned string s is Some(s).                            *)
(***************************************************************************)
EXTENDS Integers, Sequences, FiniteSets, TLC

VARIABLES
    tpl,        \* pure functions: the template text handed to them
    vars,       \* pure functions: the mapping handed to render_xml_template
    extracted,  \* pure functions: what extract_jinja_variables returned
    rendered,   \* pure functions: what render_xml_template returned
    phase,      \* pure functions: "input", "extracted" or "rendered"
    files,      \* the template folder: name -> Some(content), None if absent
    logs,       \* the rows of the logs table of actions.db, oldest first
    resp,       \* the response to the last request
    last,       \* the last request: its inputs and what its handler computed
    shown,      \* the form the last template_form request displayed
    txns,       \* the transactions table: txn_id -> row, NoRow if absent
    rv,         \* each initiate-reversal request in progress
    now,        \* the clock, in seconds
    qry,        \* the last search or transaction-details request
    folder,     \* the template folder itself: present, missing or unlistable
    nav         \* a browser following the redirects of one request

pureVars == <<tpl, vars, extracted, rendered, phase>>
genVars == <<files, logs, resp, last, shown>>
revVars == <<txns, rv, now>>
qryVars == <<qry>>
scanVars == <<folder>>
navVars == <<nav>>
allVars == <<pureVars, genVars, revVars, qryVars, scanVars, navVars>>

----------------------------------------------------------------------------
(* Bounds *)

\* A template text is the concatenation of at most MaxParts pieces of Pieces.
MaxParts == 3

\* Generate requests are served while the log holds fewer rows than MaxLog.
MaxLog == 1

\* The clock runs from 0 to MaxClock.
MaxClock == 1

----------------------------------------------------------------------------
(* Characters *)

LetterChars == {"a", "B", "e", "n", "o", "x", "_"}
DigitChars == {"1"}
SpaceChars == {" ", "\n"}

\* The code point of a character: Python compares strings by code point.
Ord(c) ==
    CASE c = "\n" -> 10
      [] c = " " -> 32
      [] c = "&" -> 38
      [] c = "." -> 46
      [] c = "1" -> 49
      [] c = ";" -> 59
      [] c = "<" -> 60
      [] c = "B" -> 66
      [] c = "_" -> 95
      [] c = "a" -> 97
      [] c = "e" -> 101
      [] c = "f" -> 102
      [] c = "l" -> 108
      [] c = "m" -> 109
      [] c = "n" -> 110
      [] c = "o" -> 111
      [] c = "s" -> 115
      [] c = "t" -> 116
      [] c = "x" -> 120
      [] c = "{" -> 123
      [] c = "}" -> 125

None == [is_none |-> TRUE, text |-> <<>>]
Some(s) == [is_none |-> FALSE, text |-> s]

\* Python truthiness of an Optional[str]: None and "" are falsy.
Truthy(r) == ~r.is_none /\ r.text # <<>>

ToSet(s) == {s[i] : i \in 1..Len(s)}

----------------------------------------------------------------------------
(* extract_jinja_variables: re.findall of the pattern "two opening braces,  *)
(* any whitespace, a captured identifier (a letter or underscore, then any *)
(* letters, digits, underscores), any whitespace, two closing braces",     *)
(* then set(), then sorted().                                              *)

IsSpace(c) == c \in SpaceChars

\* A plausible slip: the identifier may start with a digit.
IsIdentStart_or_digit(c) == c \in LetterChars \cup DigitChars

IsIdentStart(c) == c \in LetterChars
IsIdentChar(c) == c \in LetterChars \cup DigitChars

\* Whitespace from position i: the first position that holds none.
RECURSIVE SkipSpace(_, _)
SkipSpace(s, i) ==
    IF i <= Len(s) /\ IsSpace(s[i]) THEN SkipSpace(s, i + 1) ELSE i

\* Identifier characters from position i: the first position that holds none.
RECURSIVE SkipIdent(_, _)
SkipIdent(s, i) ==
    IF i <= Len(s) /\ IsIdentChar(s[i]) THEN SkipIdent(s, i + 1) ELSE i

BraceAt(s, i, c) == i + 1 <= Len(s) /\ s[i] = c /\ s[i + 1] = c

NoMatch == [found |-> FALSE, name |-> <<>>, next |-> 0]

\* The pattern matched at position i exactly.  Each quantifier is greedy and
\* what follows it cannot start with a character it takes, so the greedy
\* match is the only one.
MatchAt(s, i) ==
    IF ~BraceAt(s, i, "{") THEN NoMatch
    ELSE LET j == SkipSpace(s, i + 2) IN
         IF ~(j <= Len(s) /\ IsIdentStart(s[j])) THEN NoMatch
         ELSE LET k == SkipIdent(s, j + 1)
                  l == SkipSpace(s, k)
              IN  IF BraceAt(s, l, "}")
                  THEN [found |-> TRUE, name |-> SubSeq(s, j, k - 1), next |-> l + 2]
                  ELSE NoMatch

\* re.findall: the groups of the non-overlapping matches, left to right.
RECURSIVE FindAll(_, _)
FindAll(s, i) ==
    IF i > Len(s) THEN <<>>
    ELSE LET m == MatchAt(s, i) IN
         IF m.found THEN <<m.name>> \o FindAll(s, m.next)
         ELSE FindAll(s, i + 1)

\* a < b for Python strings.
RECURSIVE StrLess(_, _)
StrLess(a, b) ==
    IF b = <<>> THEN FALSE
    ELSE IF a = <<>> THEN TRUE
    ELSE IF Head(a) = Head(b) THEN StrLess(Tail(a), Tail(b))
    ELSE Ord(Head(a)) < Ord(Head(b))

\* sorted(list(S)) for a set S of strings.
RECURSIVE Sorted(_)
Sorted(S) ==
    IF S = {} THEN <<>>
    ELSE LET m == CHOOSE x \in S : \A y \in S \ {x} : StrLess(x, y)
         IN  <<m>> \o Sorted(S \ {m})

\* A plausible slip: the names in order of first appearance, duplicates kept.
extract_unsorted(xml_content) == FindAll(xml_content, 1)

extract_jinja_variables(xml_content) == Sorted(ToSet(FindAll(xml_content, 1)))

----------------------------------------------------------------------------
(* render_xml_template: jinja2.Template(template_content).render with the  *)
(* mapping as keyword arguments, every exception turned into None.  The    *)
(* engine is modelled on the texts                                         *)
(* the alphabet can form: literal data, and print statements holding a     *)
(* name, an integer literal or an empty dict literal.  Statement blocks,   *)
(* comments, strings, filters and whitespace control need characters the   *)
(* alphabet does not have.                                                 *)

\* The lexer drops one trailing newline of the source (keep_trailing_newline
\* is off by default).
DropTrailingNewline(s) ==
    IF s # <<>> /\ s[Len(s)] = "\n" THEN SubSeq(s, 1, Len(s) - 1) ELSE s

RECURSIVE SkipDigits(_, _)
SkipDigits(s, i) ==
    IF i <= Len(s) /\ s[i] \in DigitChars THEN SkipDigits(s, i + 1) ELSE i

\* The names the engine's parser reads as constants, with what they print.
JinjaLiterals ==
    { <<"t","r","u","e">>, <<"T","r","u","e">>,
      <<"f","a","l","s","e">>, <<"F","a","l","s","e">>,
      <<"n","o","n","e">>, <<"N","o","n","e">> }

LiteralText(name) ==
    CASE name \in {<<"t","r","u","e">>, <<"T","r","u","e">>} -> <<"T","r","u","e">>
      [] name \in {<<"f","a","l","s","e">>, <<"F","a","l","s","e">>} -> <<"F","a","l","s","e">>
      [] OTHER -> <<"N","o","n","e">>

\* What a print statement of a name writes: a constant for a literal word,
\* the mapping's value verbatim (autoescape is off), and the empty string
\* for a name the mapping lacks (the default Undefined prints as "").
Lookup(name, variables) ==
    IF name \in JinjaLiterals THEN LiteralText(name)
    ELSE IF name \in DOMAIN variables THEN variables[name]
    ELSE <<>>

PrintError == [ok |-> FALSE, text |-> <<>>, next |-> 0]

\* The print statement whose opening braces end right before position p:
\* [ok, text written, position after the closing braces], or PrintError for
\* a TemplateSyntaxError.
ParsePrint(s, p, variables) ==
    LET j == SkipSpace(s, p) IN
    IF j > Len(s) THEN PrintError
    ELSE IF IsIdentStart(s[j]) THEN
        LET k == SkipIdent(s, j + 1)
            l == SkipSpace(s, k)
        IN  IF BraceAt(s, l, "}")
            THEN [ok |-> TRUE, text |-> Lookup(SubSeq(s, j, k - 1), variables), next |-> l + 2]
            ELSE PrintError
    ELSE IF s[j] \in DigitChars THEN
        LET k == SkipDigits(s, j + 1)
            l == SkipSpace(s, k)
        IN  IF BraceAt(s, l, "}")
            THEN [ok |-> TRUE, text |-> SubSeq(s, j, k - 1), next |-> l + 2]
            ELSE PrintError
    ELSE IF s[j] = "{" THEN
        \* a dict literal: without a colon in the alphabet only the empty one
        \* parses; its closing brace is an operator, not half of the end mark
        LET l1 == SkipSpace(s, j + 1) IN
        IF l1 <= Len(s) /\ s[l1] = "}"
        THEN LET l2 == SkipSpace(s, l1 + 1) IN
             IF BraceAt(s, l2, "}")
             THEN [ok |-> TRUE, text |-> <<"{", "}">>, next |-> l2 + 2]
             ELSE PrintError
        ELSE PrintError
    ELSE PrintError

\* The template rendered from position i: data up to the next "{{", then a
\* print statement, and so on.  A syntax error anywhere fails the whole
\* template, since it is compiled before anything is written.
RECURSIVE RenderFrom(_, _, _)
RenderFrom(s, i, variables) ==
    IF i > Len(s) THEN Some(<<>>)
    ELSE IF BraceAt(s, i, "{") THEN
        LET r == ParsePrint(s, i + 2, variables) IN
        IF ~r.ok THEN None
        ELSE LET rest == RenderFrom(s, r.next, variables) IN
             IF rest.is_none THEN None ELSE Some(r.text \o rest.text)
    ELSE LET rest == RenderFrom(s, i + 1, variables) IN
         IF rest.is_none THEN None ELSE Some(<<s[i]>> \o rest.text)

\* XML escaping of a value, as an engine with autoescape on would do.
RECURSIVE Escape(_)
Escape(v) ==
    IF v = <<>> THEN <<>>
    ELSE (IF Head(v) = "<" THEN <<"&", "l", "t", ";">> ELSE <<Head(v)>>)
         \o Escape(Tail(v))

\* The one key that cannot be passed to render as a keyword argument: it
\* is the name of the method's own first parameter.
SelfKey == <<"s", "e", "l", "f">>

\* A plausible slip: the values escaped before they are inserted.
render_autoescape(template_content, variables) ==
    IF SelfKey \in DOMAIN variables THEN None
    ELSE RenderFrom(DropTrailingNewline(template_content), 1,
                    [k \in DOMAIN variables |-> Escape(variables[k])])

\* Template(template_content).render with the mapping as keyword arguments,
\* every exception turned into None: a syntax error of the template, and
\* the TypeError of the call itself when the mapping has the key "self".
render_xml_template(template_content, variables) ==
    IF SelfKey \in DOMAIN variables THEN None
    ELSE RenderFrom(DropTrailingNewline(template_content), 1, variables)

----------------------------------------------------------------------------
(* The inputs of the pure functions *)

TokA == <<"{", "{", "a", "}", "}">>
TokB == <<"{", "{", " ", "B", " ", "}", "}">>
TokNone == <<"{", "{", "n", "o", "n", "e", "}", "}">>

TokBad == <<"{", "{", "1", "a", "}", "}">>

Pieces ==
    { TokA, TokB, TokNone, TokBad, <<"{", "{">>, <<"}", "}">>, <<"{">>, <<"}">>,
      <<"a">>, <<"1">>, <<"\n">> }

RECURSIVE TextsOfParts(_)
TextsOfParts(n) ==
    IF n = 0 THEN {<<>>}
    ELSE LET S == TextsOfParts(n - 1) IN S \cup {t \o p : t \in S, p \in Pieces}

Templates == TextsOfParts(MaxParts)

KeyPool == { <<"a">>, <<"B">>, <<"n", "o", "n", "e">> }

\* A submitted value: empty, or "<" followed by the key (a value that XML
\* escaping would change, different for each key).
Mappings ==
    { [k \in K |-> IF k \in E THEN <<>> ELSE <<"<">> \o k] :
        K \in SUBSET KeyPool, E \in SUBSET KeyPool }
    \cup { [k \in K \cup {SelfKey} |-> <<"<">> \o k] : K \in SUBSET KeyPool }

----------------------------------------------------------------------------
(* The pure functions applied to every input *)

PureIdle ==
    /\ tpl = <<>>
    /\ vars = <<>>
    /\ extracted = <<>>
    /\ rendered = None
    /\ phase = "idle"

GenIdle ==
    /\ files = <<>>
    /\ logs = <<>>
    /\ resp = <<>>
    /\ last = <<>>
    /\ shown = <<>>

RevIdle ==
    /\ txns = <<>>
    /\ rv = <<>>
    /\ now = 0

QryIdle == qry = <<>>

ScanIdle == folder = ""

NavIdle == nav = <<>>

InitPure ==
    /\ tpl \in Templates
    /\ vars = <<>>
    /\ extracted = <<>>
    /\ rendered = None
    /\ phase = "input"
    /\ GenIdle
    /\ RevIdle
    /\ QryIdle
    /\ ScanIdle
    /\ NavIdle

Extract ==
    /\ phase = "input"
    /\ extracted' = extract_jinja_variables(tpl)
    /\ phase' = "extracted"
    /\ UNCHANGED <<tpl, vars, rendered>>
    /\ UNCHANGED <<genVars, revVars, qryVars, scanVars, navVars>>

Render ==
    /\ phase = "extracted"
    /\ \E M \in Mappings :
        /\ vars' = M
        /\ rendered' = render_xml_template(tpl, M)
    /\ phase' = "rendered"
    /\ UNCHANGED <<tpl, extracted>>
    /\ UNCHANGED <<genVars, revVars, qryVars, scanVars, navVars>>

NextPure == Extract \/ Render

SpecPure == InitPure /\ [][NextPure]_allVars

----------------------------------------------------------------------------
(* What the claims about the pure functions speak of *)

IsIdentifier(n) ==
    /\ n # <<>>
    /\ IsIdentStart(n[1])
    /\ \A q \in 2..Len(n) : IsIdentChar(n[q])

AllSpace(s, lo, hi) == \A q \in lo..hi : IsSpace(s[q])

\* The identifiers inside the well-formed tokens of s, stated without the
\* scan: s[i..j] is two opening braces, whitespace, s[a..b], whitespace, two
\* closing braces.
TokenNames(s) ==
    LET P == { ab \in (1..Len(s)) \X (1..Len(s)) :
                 /\ ab[1] <= ab[2]
                 /\ IsIdentifier(SubSeq(s, ab[1], ab[2]))
                 /\ \E i \in 1..(ab[1] - 2), j \in (ab[2] + 2)..Len(s) :
                        /\ BraceAt(s, i, "{")
                        /\ BraceAt(s, j - 1, "}")
                        /\ AllSpace(s, i + 2, ab[1] - 1)
                        /\ AllSpace(s, ab[2] + 1, j - 2) }
    IN  { SubSeq(s, ab[1], ab[2]) : ab \in P }

StrictlySorted(q) == \A i \in 1..Len(q), j \in 1..Len(q) : i < j => StrLess(q[i], q[j])

\* M has a value for every name extract_jinja_variables finds in T.
Covers(T, M) == ToSet(extract_jinja_variables(T)) \subseteq DOMAIN M

\* T with every well-formed token replaced by the mapping's value for its
\* name, everything else kept.
RECURSIVE Substitute(_, _, _)
Substitute(T, i, M) ==
    IF i > Len(T) THEN <<>>
    ELSE LET m == MatchAt(T, i) IN
         IF m.found THEN M[m.name] \o Substitute(T, m.next, M)
         ELSE <<T[i]>> \o Substitute(T, i + 1, M)

\* Every pair of opening braces in T starts a well-formed token.
PlainTemplate(T) ==
    \A i \in 1..Len(T) : BraceAt(T, i, "{") => MatchAt(T, i).found

NoLiteralNames(T) == ToSet(extract_jinja_variables(T)) \cap JinjaLiterals = {}

Orig_C2 ==
    (phase = "rendered" /\ ~Covers(tpl, vars)) => rendered.is_none

\* C3: extract_jinja_variables returns a list sorted ascending, without
\* duplicates, holding exactly the identifiers of the well-formed tokens.
Thm_C3 ==
    phase = "extracted" =>
        /\ StrictlySorted(extracted)
        /\ ToSet(extracted) = TokenNames(tpl)

Wit_C3 ==
    /\ phase = "extracted"
    /\ Len(extracted) = 2
    /\ FindAll(tpl, 1) # extracted

\* M without the key k.
Without(M, k) == [x \in DOMAIN M \ {k} |-> M[x]]

\* C19: a key of the mapping that is not a placeholder of the template is
\* ignored: with it or without it the render succeeds or fails alike and
\* writes the same output.
Orig_C19 ==
    phase = "rendered" =>
        \A k \in DOMAIN vars \ ToSet(extracted) :
            render_xml_template(tpl, Without(vars, k)) = rendered

\* The position after the malformed placeholder that starts at i (opening
\* braces, an identifier starting with a digit, closing braces), 0 if none
\* starts there.
MalformedAt(s, i) ==
    IF BraceAt(s, i, "{") /\ i + 2 <= Len(s) /\ s[i + 2] \in DigitChars
    THEN LET k == SkipIdent(s, i + 3) IN IF BraceAt(s, k, "}") THEN k + 2 ELSE 0
    ELSE 0

\* C20: extract_jinja_variables returns a list for every text: the empty
\* list for the empty text, and for a text with a malformed placeholder the
\* names of the well-formed placeholders before it and after it, the
\* malformed one adding nothing.
Thm_C20 ==
    phase = "extracted" =>
        /\ tpl = <<>> => extracted = <<>>
        /\ \A i \in 1..Len(tpl) :
              LET e == MalformedAt(tpl, i) IN
              e # 0 =>
                ToSet(extracted)
                  = ToSet(extract_jinja_variables(SubSeq(tpl, 1, i - 1)))
                    \cup ToSet(extract_jinja_variables(SubSeq(tpl, e, Len(tpl))))

Wit_C20 ==
    /\ phase = "extracted"
    /\ \E i \in 1..Len(tpl) : MalformedAt(tpl, i) # 0
    /\ Len(extracted) = 2

----------------------------------------------------------------------------
(* The XML generator's request handlers *)

\* The names a file of the folder can have and a request can ask for: one
\* with the suffix the scan looks for, one without.
TXml == <<"t", ".", "x", "m", "l">>
NTxt == <<"n", ".", "t", "x", "t">>
TemplateNames == {TXml, NTxt}

\* What a template file can hold.
StoreTexts ==
    { <<>>, <<"a">>, <<"a", "\n">>, TokA, TokA \o TokB, TokA \o <<"{", "{">> }

FileStates == {None} \cup {Some(t) : t \in StoreTexts}

\* What the file of each name can hold.
FileStatesOf(name) == IF name = TXml THEN FileStates ELSE {Some(TokA)}

\* filename.endswith(suffix)
EndsWith(s, suffix) ==
    /\ Len(s) >= Len(suffix)
    /\ SubSeq(s, Len(s) - Len(suffix) + 1, Len(s)) = suffix

\* A plausible slip: every entry of the folder is listed.
get_available_templates_unfiltered ==
    IF folder = "present"
    THEN Sorted({f \in DOMAIN files : ~files[f].is_none})
    ELSE <<>>

\* os.listdir of the folder, the names ending in ".xml" kept, sorted.  A
\* folder that does not exist is not listed, and a failure of the listing
\* is caught: both leave the list empty.
get_available_templates ==
    IF folder = "present"
    THEN Sorted({f \in DOMAIN files :
                    ~files[f].is_none /\ EndsWith(f, <<".", "x", "m", "l">>)})
    ELSE <<>>

NoDiagnostic == [level |-> "", message |-> "", templates |-> <<>>]

\* What the scan writes to the application log: the list found, at level
\* info, whether or not the folder exists; the error, when the listing
\* raised.
ScanDiagnostic ==
    IF folder = "unlistable"
    THEN [level |-> "error", message |-> "Error scanning templates folder",
          templates |-> <<>>]
    ELSE [level |-> "info", message |-> "Found templates",
          templates |-> get_available_templates]

KeyA == <<"a">>
KeyB == <<"B">>

\* What a client can post: request.form as a dict of name -> value.
Forms ==
    { <<>>,
      [k \in {KeyA} |-> <<>>],
      [k \in {KeyA} |-> <<"<", "a">>],
      [k \in {KeyA, KeyB} |-> <<"<">> \o k],
      [k \in {KeyA, KeyB} |-> IF k = KeyB THEN <<>> ELSE <<"<">> \o k] }

\* What is posted for each name.
FormsOf(name) == IF name = TXml THEN Forms ELSE {[k \in {KeyA} |-> <<"<", "a">>]}

NoFlash == <<>>
Redirect(target, flash) ==
    [kind |-> "redirect", target |-> target, flash |-> flash,
     fields |-> <<>>, body |-> None]
Page(page, fields, body) ==
    [kind |-> "page", target |-> page, flash |-> NoFlash,
     fields |-> fields, body |-> body]
NoResponse ==
    [kind |-> "none", target |-> "", flash |-> NoFlash,
     fields |-> <<>>, body |-> None]

\* open(...).read(), any exception (no such file, unreadable) turned into None.
read_template_content(template_name) ==
    IF template_name \in DOMAIN files THEN files[template_name] ELSE None

LogRow(template_name, submitted_data, generated_xml) ==
    [template_name |-> template_name,
     submitted_data |-> submitted_data,
     generated_xml |-> generated_xml]

\* A plausible slip: a failed write raised to the caller.
log_generation_raising(template_name, submitted_data, generated_xml, db_ok) ==
    [raised |-> ~db_ok,
     logs |-> IF db_ok
              THEN Append(logs, LogRow(template_name, submitted_data, generated_xml))
              ELSE logs]

\* A plausible slip: the fields left empty are not stored.
log_generation_filtered(template_name, submitted_data, generated_xml, db_ok) ==
    [raised |-> FALSE,
     logs |-> IF db_ok
              THEN Append(logs, LogRow(template_name,
                       [k \in {x \in DOMAIN submitted_data : submitted_data[x] # <<>>}
                           |-> submitted_data[k]],
                       generated_xml))
              ELSE logs]

\* INSERT INTO logs and commit; db_ok is whether sqlite can do it.  Every
\* exception is logged and swallowed.  The row is the mapping's JSON text:
\* json.dumps keeps the keys and values of a dict of strings.  The timestamp
\* column and the row id (the row's place in logs) are left out.
log_generation(template_name, submitted_data, generated_xml, db_ok) ==
    [raised |-> FALSE,
     logs |-> IF db_ok
              THEN Append(logs, LogRow(template_name, submitted_data, generated_xml))
              ELSE logs]

\* "if not template_content" and "if not generated_xml".
\* A plausible slip: only None counts as a failure.
Falsy_none_only(r) == r.is_none

\* "if not x" on an Optional text: None and the empty string alike.
Falsy(r) == ~Truthy(r)

\* A plausible slip: the render result is never tested.
RenderFailed_never(generated_xml) == FALSE

RenderFailed(generated_xml) == Falsy(generated_xml)

\* The handler of GET template/<template_name>: the response.
\* A plausible slip: the form handler sends a missing template back to the
\* form.
template_form_redirects_to_form(template_name) ==
    LET template_content == read_template_content(template_name) IN
    IF Falsy(template_content)
    THEN Redirect("template_form", <<"error", "Template not found">>)
    ELSE Page("template_form",
              extract_jinja_variables(template_content.text), None)

\* The handler of GET template/<template_name>.
template_form(template_name) ==
    LET template_content == read_template_content(template_name) IN
    IF Falsy(template_content)
    THEN Redirect("xml_generator_home", <<"error", "Template not found">>)
    ELSE Page("template_form",
              extract_jinja_variables(template_content.text), None)

\* The handler of POST generate/<template_name>: what it read and rendered,
\* the log it leaves and the response.
generate_xml(template_name, form_data, db_ok) ==
    LET template_content == read_template_content(template_name) IN
    IF Falsy(template_content)
    THEN [content |-> template_content, render |-> None, render_called |-> FALSE,
          logs |-> logs,
          resp |-> Redirect("xml_generator_home", <<"error", "Template not found">>)]
    ELSE
    LET generated_xml == render_xml_template(template_content.text, form_data) IN
    IF RenderFailed(generated_xml)
    THEN [content |-> template_content, render |-> generated_xml, render_called |-> TRUE,
          logs |-> logs,
          resp |-> Redirect("template_form", <<"error", "Error generating XML">>)]
    ELSE
    LET w == log_generation(template_name, form_data, generated_xml.text, db_ok) IN
    [content |-> template_content, render |-> generated_xml, render_called |-> TRUE,
     logs |-> w.logs,
     resp |-> IF w.raised
              THEN Redirect("template_form", <<"danger", "Error generating XML">>)
              ELSE Page("xml_generated", <<>>, generated_xml)]

\* A plausible slip: the table is dropped and created again at startup.
init_database_recreate == <<>>

\* CREATE TABLE IF NOT EXISTS logs, at startup: the rows of an existing
\* table stay; a failure is logged and swallowed.
init_database == logs

\* The handler of GET xml-generator: the page listing the scanned names.
xml_generator_home == Page("xml_generator_home", get_available_templates, None)

NoRequest ==
    [kind |-> "none", name |-> <<>>, form |-> <<>>, db_ok |-> TRUE,
     content |-> None, render |-> None, render_called |-> FALSE,
     via_form |-> FALSE, listed |-> FALSE, log_before |-> <<>>,
     diag |-> NoDiagnostic]

NoForm == [name |-> <<>>, fields |-> <<>>, content |-> None]

Init ==
    /\ files \in {f \in [TemplateNames -> FileStates] :
                    \A n \in TemplateNames : f[n] \in FileStatesOf(n)}
    /\ logs = <<>>
    /\ resp = NoResponse
    /\ last = NoRequest
    /\ shown = NoForm
    /\ folder = "present"
    /\ PureIdle
    /\ RevIdle
    /\ QryIdle
    /\ NavIdle

\* GET template/<template_name>
TemplateForm ==
    \E name \in TemplateNames :
        LET r == template_form(name) IN
        /\ resp' = r
        /\ shown' = IF r.kind = "page"
                    THEN [name |-> name, fields |-> r.fields,
                          content |-> read_template_content(name)]
                    ELSE shown
        /\ last' = [NoRequest EXCEPT !.kind = "template_form", !.name = name,
                        !.listed = name \in ToSet(get_available_templates)]
        /\ UNCHANGED <<files, logs>>
        /\ UNCHANGED <<pureVars, revVars, qryVars, scanVars, navVars>>

\* POST generate/<template_name>, from the displayed form or from any client.
GenerateXml ==
    \E name \in TemplateNames : \E form \in FormsOf(name), db_ok \in BOOLEAN :
        LET o == generate_xml(name, form, db_ok) IN
        /\ Len(logs) < MaxLog
        /\ logs' = o.logs
        /\ resp' = o.resp
        /\ last' = [kind |-> "generate", name |-> name, form |-> form,
                    db_ok |-> db_ok, content |-> o.content,
                    render |-> o.render, render_called |-> o.render_called,
                    via_form |-> /\ shown.name = name
                                 /\ DOMAIN form = ToSet(shown.fields)
                                 /\ shown.content = o.content,
                    listed |-> name \in ToSet(get_available_templates),
                    log_before |-> logs, diag |-> NoDiagnostic]
        /\ UNCHANGED <<files, shown>>
        /\ UNCHANGED <<pureVars, revVars, qryVars, scanVars, navVars>>

\* An operator creates, edits or removes a template file on disk.
EditTemplate ==
    \E name \in TemplateNames : \E f \in FileStatesOf(name) :
        /\ files[name] # f
        /\ files' = [files EXCEPT ![name] = f]
        /\ UNCHANGED <<logs, resp, last, shown>>
        /\ UNCHANGED <<pureVars, revVars, qryVars, scanVars, navVars>>

\* GET xml-generator
XmlGeneratorHome ==
    /\ resp' = xml_generator_home
    /\ last' = [NoRequest EXCEPT !.kind = "home", !.diag = ScanDiagnostic]
    /\ UNCHANGED <<files, logs, shown>>
    /\ UNCHANGED <<pureVars, revVars, qryVars, scanVars, navVars>>

\* The process is started again on the same actions.db: init_database runs.
Restart ==
    /\ logs' = init_database
    /\ resp' = NoResponse
    /\ last' = [NoRequest EXCEPT !.kind = "restart"]
    /\ UNCHANGED <<files, shown>>
    /\ UNCHANGED <<pureVars, revVars, qryVars, scanVars, navVars>>

Next ==
    \/ TemplateForm
    \/ GenerateXml
    \/ EditTemplate
    \/ XmlGeneratorHome
    \/ Restart

Spec == Init /\ [][Next]_allVars

----------------------------------------------------------------------------
(* What the claims about the generator's handlers speak of *)

Generated == last.kind = "generate"
RowWritten == Generated /\ logs # last.log_before
LastRow == logs[Len(logs)]

\* C4: a generate request for a template without placeholders, posted with
\* an empty mapping, succeeds and shows the template's text verbatim.
Orig_C4 ==
    (/\ Generated
     /\ ~last.content.is_none
     /\ extract_jinja_variables(last.content.text) = <<>>
     /\ DOMAIN last.form = {}) =>
        resp = Page("xml_generated", <<>>, Some(last.content.text))

\* C7: a generate request whose render succeeds appends exactly one row,
\* holding the template name, the posted mapping and the rendered output
\* that is also returned to the user (the log store being writable).  It is
\* stated for the requests whose mapping has a value for every placeholder.
Orig_C7 ==
    (/\ Generated /\ last.render_called /\ ~last.render.is_none /\ last.db_ok
     /\ Covers(last.content.text, last.form)) =>
        /\ logs = Append(last.log_before,
                         LogRow(last.name, last.form, last.render.text))
        /\ resp.body = last.render

\* C8: when the write of the row fails, the generate request still answers
\* with the page showing the rendered output: no redirect, no message.
Thm_C8 ==
    (Generated /\ last.render_called /\ Truthy(last.render) /\ ~last.db_ok) =>
        /\ resp = Page("xml_generated", <<>>, last.render)
        /\ logs = last.log_before

Wit_C8 ==
    /\ Generated /\ last.render_called /\ Truthy(last.render) /\ ~last.db_ok
    /\ DOMAIN last.form # {}

\* C9: a generate request whose render fails leaves the log as it was and
\* redirects to the template form with an error message; a row is written
\* only by a request whose render succeeded.
Thm_C9 ==
    Generated =>
        /\ (last.render_called /\ last.render.is_none) =>
              /\ logs = last.log_before
              /\ resp = Redirect("template_form", <<"error", "Error generating XML">>)
        /\ RowWritten => (last.render_called /\ ~last.render.is_none)

Wit_C9 ==
    /\ Generated /\ last.render_called /\ last.render.is_none
    /\ last.db_ok
    /\ extract_jinja_variables(last.content.text) # <<>>

\* The template file changed between the display of the form and the post.
ChangedSinceShown == shown.name = last.name /\ shown.content # last.content

\* C10 as stated: in every row a generate request writes, the keys of the
\* stored mapping are the names extracted from the template's content at
\* generation time (the file not having changed since the form was shown).
Orig_C10 ==
    (RowWritten /\ ~ChangedSinceShown) =>
        DOMAIN LastRow.submitted_data
            = ToSet(extract_jinja_variables(last.content.text))

\* C10 as amended: in every row written by a generate request that posts
\* exactly the fields of the form template_form displayed for that template,
\* the file not having changed since, the keys of the stored mapping are
\* the names extracted from the template's content at generation time.
Thm_C10 ==
    (RowWritten /\ last.via_form) =>
        DOMAIN LastRow.submitted_data
            = ToSet(extract_jinja_variables(last.content.text))

Wit_C10 ==
    /\ RowWritten /\ last.via_form
    /\ Len(shown.fields) = 2
    /\ \E k \in DOMAIN last.form : last.form[k] = <<>>

Orig_C12 ==
    (last.kind \in {"template_form", "generate"} /\ ~last.listed) =>
        /\ resp = Redirect("xml_generator_home", <<"error", "Template not found">>)
        /\ ~last.render_called
        /\ last.kind = "generate" => logs = last.log_before

\* C29: the handlers test by truthiness.  A template file that exists with
\* empty content is answered "not found" by the form handler and by the
\* generate handler, which renders nothing; a render that succeeds with
\* empty output is answered with the generation error and a redirect to the
\* form, and writes no row.
Thm_C29 ==
    [][/\ (/\ last'.kind = "template_form"
           /\ files' = files
           /\ files[last'.name] = Some(<<>>)) =>
              resp' = Redirect("xml_generator_home",
                               <<"error", "Template not found">>)
       /\ (last'.kind = "generate" /\ last'.content = Some(<<>>)) =>
              /\ ~last'.render_called
              /\ logs' = last'.log_before
              /\ resp' = Redirect("xml_generator_home",
                                  <<"error", "Template not found">>)
       /\ (/\ last'.kind = "generate" /\ last'.render_called
           /\ last'.render = Some(<<>>)) =>
              /\ logs' = last'.log_before
              /\ resp' = Redirect("template_form",
                                  <<"error", "Error generating XML">>)]_allVars

\* The claim's example: template {{a}} posted with a = "".
Wit_C29 ==
    /\ Generated /\ last.render_called
    /\ last.content = Some(TokA)
    /\ KeyA \in DOMAIN last.form /\ last.form[KeyA] = <<>>
    /\ last.render = Some(<<>>)
    /\ last.db_ok
    /\ resp.kind = "redirect"

----------------------------------------------------------------------------
(* The scan of the template folder, the folder changing between scans *)

\* The names an entry of the folder can have.
ScanNames ==
    { <<"a", ".", "x", "m", "l">>, <<"B", ".", "x", "m", "l">>,
      <<"1", ".", "x", "m", "l">>, <<".", "x", "m", "l">>,
      <<"a", ".", "x", "m">>, <<"a", "x", "m", "l">>, NTxt }

FolderStates == {"present", "missing", "unlistable"}

InitScan ==
    /\ files \in [ScanNames -> {None, Some(TokA)}]
    /\ folder \in FolderStates
    /\ folder = "missing" => \A n \in ScanNames : files[n].is_none
    /\ logs = <<>>
    /\ resp = NoResponse
    /\ last = NoRequest
    /\ shown = NoForm
    /\ PureIdle
    /\ RevIdle
    /\ QryIdle
    /\ NavIdle

\* An operator puts a file into the folder.
AddFile ==
    \E name \in ScanNames :
        /\ folder = "present"
        /\ files[name].is_none
        /\ files' = [files EXCEPT ![name] = Some(TokA)]
        /\ last' = [NoRequest EXCEPT !.kind = "edit"]
        /\ UNCHANGED <<logs, resp, shown, folder>>
        /\ UNCHANGED <<pureVars, revVars, qryVars, navVars>>

\* An operator removes a file from the folder.
RemoveFile ==
    \E name \in ScanNames :
        /\ folder = "present"
        /\ ~files[name].is_none
        /\ files' = [files EXCEPT ![name] = None]
        /\ last' = [NoRequest EXCEPT !.kind = "edit"]
        /\ UNCHANGED <<logs, resp, shown, folder>>
        /\ UNCHANGED <<pureVars, revVars, qryVars, navVars>>

\* The folder is removed, made unreadable, or put back (empty if it was
\* removed).
ChangeFolder ==
    \E f \in FolderStates :
        /\ f # folder
        /\ folder' = f
        /\ files' = IF f = "missing" THEN [n \in ScanNames |-> None] ELSE files
        /\ last' = [NoRequest EXCEPT !.kind = "edit"]
        /\ UNCHANGED <<logs, resp, shown>>
        /\ UNCHANGED <<pureVars, revVars, qryVars, navVars>>

NextScan == XmlGeneratorHome \/ AddFile \/ RemoveFile \/ ChangeFolder

SpecScan == InitScan /\ [][NextScan]_allVars

\* The entries of the folder whose name ends with the template suffix.
XmlEntries ==
    { f \in DOMAIN files :
        /\ ~files[f].is_none
        /\ Len(f) >= 4
        /\ f[Len(f) - 3] = "." /\ f[Len(f) - 2] = "x"
        /\ f[Len(f) - 1] = "m" /\ f[Len(f)] = "l" }

\* C21: a scan of the folder changes nothing in it and returns exactly the
\* entries whose name ends with ".xml", each once, in ascending order, as
\* the folder is at the time of that scan.
Thm_C21 ==
    [][last'.kind = "home" =>
          /\ files' = files /\ folder' = folder
          /\ folder = "present" =>
                /\ StrictlySorted(resp'.fields)
                /\ ToSet(resp'.fields) = XmlEntries]_allVars

\* A scan that found three templates next to an entry that is not one, in
\* a folder that was changed before.
Wit_C21 ==
    /\ last.kind = "home" /\ folder = "present"
    /\ Len(resp.fields) = 3
    /\ ~files[NTxt].is_none
    /\ \E f \in ScanNames : files[f].is_none

\* What the scan logs for a folder that exists and is empty.
EmptyFolderDiagnostic ==
    [level |-> "info", message |-> "Found templates", templates |-> <<>>]

\* C22: when the folder does not exist or cannot be listed, the scan
\* returns the empty list, raises nothing (the list page is shown, empty),
\* and logs a diagnostic that tells the case from an empty folder.
Orig_C22 ==
    (last.kind = "home" /\ folder # "present") =>
        /\ resp = Page("xml_generator_home", <<>>, None)
        /\ last.diag # EmptyFolderDiagnostic

----------------------------------------------------------------------------
(* Transaction reversal: the external store and the service *)

TxnIds == {"T1", "T2"}
Reqs == {"r1", "r2"}

\* The reversal_reason field of the posted form; "" is empty or missing.
Reasons == {"", "duplicate"}

\* SQL NULL in a status column.
Null == "<null>"

\* A reversal_reference: NULL, the '' that stands for NULL in a fetched
\* record, or the id REV_<txn_id>_<timestamp>.
NullRef == [kind |-> "null", txn_id |-> "", ts |-> 0]
EmptyRef == [kind |-> "empty", txn_id |-> "", ts |-> 0]
ReversalId(txn_id, ts) == [kind |-> "id", txn_id |-> txn_id, ts |-> ts]

NoRow == [exists |-> FALSE, txn_status |-> Null, reversal_status |-> Null,
          reversal_reference |-> NullRef]
Row(txn_status, reversal_status, reversal_reference) ==
    [exists |-> TRUE, txn_status |-> txn_status,
     reversal_status |-> reversal_status,
     reversal_reference |-> reversal_reference]

\* The rows a transaction can start with.
InitialRows ==
    {NoRow} \cup
    { Row(ts, rs, NullRef) :
        ts \in {"COMPLETED", "FAILED"}, rs \in {Null, "PENDING", "COMPLETED"} }

\* What get_transaction_details returns: None, or the row as a dict with
\* every NULL turned into ''.
NotFound == [found |-> FALSE, row |-> NoRow]
Found(row) ==
    [found |-> TRUE,
     row |-> [exists |-> TRUE,
              txn_status |-> IF row.txn_status = Null THEN "" ELSE row.txn_status,
              reversal_status |->
                  IF row.reversal_status = Null THEN "" ELSE row.reversal_status,
              reversal_reference |->
                  IF row.reversal_reference = NullRef THEN EmptyRef
                  ELSE row.reversal_reference]]

\* SELECT ... WHERE txn_id = :txn_id; db_ok is whether the connection and
\* the query work.  Every exception is logged and turned into None.
get_transaction_details(txn_id, db_ok) ==
    IF db_ok /\ txns[txn_id].exists THEN Found(txns[txn_id]) ELSE NotFound

\* A plausible slip: a row already PENDING keeps its reference.
update_keep_pending(txn_id, reversal_id, status, db_ok) ==
    IF db_ok /\ txns[txn_id].exists /\ txns[txn_id].reversal_status # "PENDING"
    THEN [txns EXCEPT ![txn_id].reversal_status = status,
                      ![txn_id].reversal_reference = reversal_id]
    ELSE txns

\* A plausible slip: the UPDATE has no WHERE clause.
update_every_row(txn_id, reversal_id, status, db_ok) ==
    IF db_ok
    THEN [id \in TxnIds |->
             IF txns[id].exists
             THEN [txns[id] EXCEPT !.reversal_status = status,
                                   !.reversal_reference = reversal_id]
             ELSE txns[id]]
    ELSE txns

\* UPDATE transactions SET reversal_status, reversal_reference WHERE txn_id
\* and commit: the table it leaves.  Every exception is logged and
\* swallowed; the caller learns nothing.
update_transaction_reversal_status(txn_id, reversal_id, status, db_ok) ==
    IF db_ok /\ txns[txn_id].exists
    THEN [txns EXCEPT ![txn_id].reversal_status = status,
                      ![txn_id].reversal_reference = reversal_id]
    ELSE txns

\* A plausible slip: the reversal id is made of the timestamp alone.
JConsoleResponse_timestamp_only(txn_id, ts) ==
    [success |-> TRUE, reversal_id |-> ReversalId("", ts), status |-> "PENDING"]

\* The mock response of initiate_reversal_via_jconsole, built before the
\* update is attempted.
JConsoleResponse(txn_id, ts) ==
    [success |-> TRUE, reversal_id |-> ReversalId(txn_id, ts),
     status |-> "PENDING"]

NoJConsoleResponse == [success |-> FALSE, reversal_id |-> NullRef, status |-> ""]

RevRedirect(target, category, message, reversal_id) ==
    [kind |-> "redirect", target |-> target, category |-> category,
     message |-> message, reversal_id |-> reversal_id]
NoRevResponse ==
    [kind |-> "none", target |-> "", category |-> "", message |-> "",
     reversal_id |-> NullRef]

Accepted == NoRevResponse

\* A plausible slip: the transaction status is not checked.
reversal_precondition_no_status(transaction) ==
    IF ~transaction.found
    THEN RevRedirect("tran_reversal_home", "error", "Transaction not found", NullRef)
    ELSE IF transaction.row.reversal_status = "COMPLETED"
    THEN RevRedirect("transaction_details", "warning",
                     "Transaction has already been reversed", NullRef)
    ELSE Accepted

\* A plausible slip: a reversal already pending is not started again.
reversal_precondition_rejects_pending(transaction) ==
    IF ~transaction.found
    THEN RevRedirect("tran_reversal_home", "error", "Transaction not found", NullRef)
    ELSE IF transaction.row.reversal_status \in {"COMPLETED", "PENDING"}
    THEN RevRedirect("transaction_details", "warning",
                     "Transaction has already been reversed", NullRef)
    ELSE IF transaction.row.txn_status # "COMPLETED"
    THEN RevRedirect("transaction_details", "warning",
                     "Only completed transactions can be reversed", NullRef)
    ELSE Accepted

\* A plausible slip: the reason is not required.
ReasonMissing_never(reversal_reason) == FALSE

\* "if not reversal_reason": the field is missing or empty.
ReasonMissing(reversal_reason) == reversal_reason = ""

\* A plausible slip: a failed update is attempted again.
AfterUpdate_retry(db_ok) == IF db_ok THEN "done" ELSE "update"

\* The update is attempted once: whether it worked or its exception was
\* logged, the dispatcher returns its response and the handler answers.
AfterUpdate(db_ok) == "done"

\* The checks of initiate_reversal on the looked-up transaction, in the
\* code's order: the response that rejects the request, or Accepted.
reversal_precondition(transaction) ==
    IF ~transaction.found
    THEN RevRedirect("tran_reversal_home", "error", "Transaction not found", NullRef)
    ELSE IF transaction.row.reversal_status = "COMPLETED"
    THEN RevRedirect("transaction_details", "warning",
                     "Transaction has already been reversed", NullRef)
    ELSE IF transaction.row.txn_status # "COMPLETED"
    THEN RevRedirect("transaction_details", "warning",
                     "Only completed transactions can be reversed", NullRef)
    ELSE Accepted

IdleRequest ==
    [pc |-> "idle", txn_id |-> "", reason |-> "", lookups |-> 0,
     transaction |-> NotFound, result |-> NoJConsoleResponse,
     dispatches |-> 0, updates |-> 0, update_applied |-> FALSE,
     stored |-> NoRow, resp |-> NoRevResponse]

InitRev ==
    /\ txns \in [TxnIds -> InitialRows]
    /\ rv = [r \in Reqs |-> IdleRequest]
    /\ now = 0
    /\ PureIdle
    /\ GenIdle
    /\ QryIdle
    /\ ScanIdle
    /\ NavIdle

\* POST initiate-reversal/<txn_id>, up to the call of the dispatcher: the
\* reason is checked, the transaction looked up and its eligibility checked.
BeginReversal(r) ==
    \E txn_id \in TxnIds, reason \in Reasons, db_ok \in BOOLEAN :
        /\ rv[r].pc = "idle"
        /\ IF ReasonMissing(reason)
           THEN rv' = [rv EXCEPT ![r] =
                    [IdleRequest EXCEPT
                        !.pc = "done", !.txn_id = txn_id, !.reason = reason,
                        !.resp = RevRedirect("transaction_details", "danger",
                                     "Reversal reason is required", NullRef)]]
           ELSE LET transaction == get_transaction_details(txn_id, db_ok)
                    rejection == reversal_precondition(transaction)
                IN  rv' = [rv EXCEPT ![r] =
                        [IdleRequest EXCEPT
                            !.pc = IF rejection = Accepted THEN "dispatch" ELSE "done",
                            !.txn_id = txn_id, !.reason = reason,
                            !.lookups = 1,
                            !.transaction = transaction,
                            !.resp = rejection]]
        /\ UNCHANGED <<txns, now>>
        /\ UNCHANGED <<pureVars, genVars, qryVars, scanVars, navVars>>

\* initiate_reversal_via_jconsole is called: it builds its mock response,
\* with the reversal id made of the transaction id and the current time.
Dispatch(r) ==
    /\ rv[r].pc = "dispatch"
    /\ rv' = [rv EXCEPT ![r].pc = "update",
                        ![r].dispatches = @ + 1,
                        ![r].result = JConsoleResponse(rv[r].txn_id, now)]
    /\ UNCHANGED <<txns, now>>
    /\ UNCHANGED <<pureVars, genVars, qryVars, scanVars, navVars>>

\* The dispatcher attempts the update and returns its response; the handler
\* flashes the outcome and redirects to the transaction's page.
UpdateAndRespond(r) ==
    \E db_ok \in BOOLEAN :
        LET me == rv[r]
            after == update_transaction_reversal_status(
                         me.txn_id, me.result.reversal_id, "PENDING", db_ok)
        IN
        /\ me.pc = "update"
        /\ txns' = after
        /\ rv' = [rv EXCEPT
                    ![r].pc = AfterUpdate(db_ok),
                    ![r].updates = @ + 1,
                    ![r].update_applied = db_ok /\ txns[me.txn_id].exists,
                    ![r].stored = after[me.txn_id],
                    ![r].resp =
                        IF me.result.success
                        THEN RevRedirect("transaction_details", "success",
                                 "Reversal initiated successfully",
                                 me.result.reversal_id)
                        ELSE RevRedirect("transaction_details", "danger",
                                 "Error initiating reversal", NullRef)]
        /\ UNCHANGED now
        /\ UNCHANGED <<pureVars, genVars, qryVars, scanVars, navVars>>

\* The response is sent; the worker is free for the next request.
Return(r) ==
    /\ rv[r].pc = "done"
    /\ rv' = [rv EXCEPT ![r] = IdleRequest]
    /\ UNCHANGED <<txns, now>>
    /\ UNCHANGED <<pureVars, genVars, qryVars, scanVars, navVars>>

Tick ==
    /\ now < MaxClock
    /\ now' = now + 1
    /\ UNCHANGED <<txns, rv>>
    /\ UNCHANGED <<pureVars, genVars, qryVars, scanVars, navVars>>

NextRev ==
    \/ \E r \in Reqs : BeginReversal(r)
    \/ \E r \in Reqs : Dispatch(r)
    \/ \E r \in Reqs : UpdateAndRespond(r)
    \/ \E r \in Reqs : Return(r)
    \/ Tick

SpecRev == InitRev /\ [][NextRev]_allVars

----------------------------------------------------------------------------
(* What the claims about the reversal handler speak of *)

\* C5: an initiate-reversal request calls the dispatcher only if, at its
\* lookup, the transaction exists, its reversal status is not COMPLETED and
\* its transaction status is COMPLETED; every other request ends with a
\* message to the user and no call of the dispatcher.
Thm_C5 ==
    \A r \in Reqs :
        /\ rv[r].dispatches > 0 =>
              /\ rv[r].lookups = 1
              /\ rv[r].transaction.found
              /\ rv[r].transaction.row.reversal_status # "COMPLETED"
              /\ rv[r].transaction.row.txn_status = "COMPLETED"
        /\ (rv[r].pc = "done" /\ rv[r].dispatches = 0) =>
              /\ rv[r].resp.kind = "redirect"
              /\ rv[r].resp.category \in {"danger", "error", "warning"}
              /\ rv[r].updates = 0

Wit_C5 ==
    \E r \in Reqs, q \in Reqs :
        /\ rv[r].pc = "done" /\ rv[r].dispatches = 1
        /\ rv[q].pc = "done" /\ rv[q].dispatches = 0
        /\ rv[q].transaction.found
        /\ rv[q].transaction.row.txn_status = "FAILED"

\* C6: whenever an initiate-reversal request reports success with reversal
\* id R, its update has set the transaction's row to reversal status PENDING
\* with reversal reference R.
Orig_C6 ==
    \A r \in Reqs :
        (rv[r].pc = "done" /\ rv[r].resp.category = "success") =>
            /\ rv[r].update_applied
            /\ rv[r].stored.reversal_status = "PENDING"
            /\ rv[r].stored.reversal_reference = rv[r].resp.reversal_id

\* C23: the dispatcher always reports success: its response has success
\* true, status PENDING and a reversal id made of the transaction id and the
\* time of the call, and the handler reports that id, whether or not the
\* update of the store worked.
Thm_C23 ==
    \A r \in Reqs :
        rv[r].dispatches > 0 =>
            /\ rv[r].result.success
            /\ rv[r].result.status = "PENDING"
            /\ \E ts \in 0..now :
                  rv[r].result.reversal_id = ReversalId(rv[r].txn_id, ts)
            /\ rv[r].pc = "done" =>
                  /\ rv[r].resp.category = "success"
                  /\ rv[r].resp.reversal_id = rv[r].result.reversal_id

Wit_C23 ==
    \E r \in Reqs :
        /\ rv[r].pc = "done" /\ rv[r].dispatches = 1
        /\ rv[r].updates = 1 /\ ~rv[r].update_applied
        /\ rv[r].txn_id = "T2" /\ now = 1

\* C24: within one request the transaction is looked up, the dispatcher
\* called and the update attempted at most once each; a failed update is
\* not attempted again.
Thm_C24 ==
    \A r \in Reqs :
        /\ rv[r].lookups <= 1
        /\ rv[r].dispatches <= 1
        /\ rv[r].updates <= 1
        /\ rv[r].updates <= rv[r].dispatches

Wit_C24 ==
    \E r \in Reqs :
        /\ rv[r].pc = "done"
        /\ rv[r].updates = 1 /\ ~rv[r].update_applied
        /\ txns[rv[r].txn_id].exists

\* The transaction as a request saw it at its lookup was eligible.
SawEligible(r) ==
    /\ rv[r].lookups = 1
    /\ rv[r].transaction.found
    /\ rv[r].transaction.row.txn_status = "COMPLETED"
    /\ rv[r].transaction.row.reversal_status # "COMPLETED"

\* C25: two requests for the same transaction, both finding it eligible at
\* their lookup, both dispatch, however their steps interleave; once both
\* have ended with their updates applied, the row has reversal status
\* PENDING and the reversal id of one of the two as its reference.
Thm_C25 ==
    \A r \in Reqs, q \in Reqs :
        (/\ r # q
         /\ rv[r].txn_id = rv[q].txn_id
         /\ SawEligible(r) /\ SawEligible(q)
         /\ rv[r].pc = "done" /\ rv[q].pc = "done") =>
            /\ rv[r].dispatches = 1 /\ rv[q].dispatches = 1
            /\ (rv[r].update_applied /\ rv[q].update_applied) =>
                  /\ txns[rv[r].txn_id].reversal_status = "PENDING"
                  /\ txns[rv[r].txn_id].reversal_reference
                        \in {rv[r].result.reversal_id, rv[q].result.reversal_id}

\* Both looked the transaction up before either updated it; the one that
\* dispatched first wrote last.
Wit_C25 ==
    \E r \in Reqs, q \in Reqs :
        /\ r # q /\ rv[r].txn_id = rv[q].txn_id
        /\ rv[r].pc = "done" /\ rv[q].pc = "done"
        /\ rv[r].transaction.found /\ rv[r].transaction.row.reversal_status = ""
        /\ rv[q].transaction.found /\ rv[q].transaction.row.reversal_status = ""
        /\ rv[r].update_applied /\ rv[q].update_applied
        /\ rv[r].result.reversal_id.ts < rv[q].result.reversal_id.ts
        /\ txns[rv[r].txn_id].reversal_reference = rv[r].result.reversal_id

\* C26: a request that finds the transaction COMPLETED with reversal status
\* PENDING passes the checks and dispatches; after an update that was
\* applied the row's reference is the id of that request, whatever it held.
Thm_C26 ==
    \A r \in Reqs :
        /\ (/\ rv[r].lookups = 1 /\ rv[r].transaction.found
            /\ rv[r].transaction.row.txn_status = "COMPLETED"
            /\ rv[r].transaction.row.reversal_status = "PENDING") =>
                /\ rv[r].resp = Accepted \/ rv[r].resp.category = "success"
                /\ rv[r].pc = "done" => rv[r].dispatches = 1
        /\ (rv[r].pc = "done" /\ rv[r].update_applied) =>
                /\ rv[r].stored.reversal_status = "PENDING"
                /\ rv[r].stored.reversal_reference = rv[r].result.reversal_id

\* A second request found the id of an earlier one and replaced it.
Wit_C26 ==
    \E r \in Reqs :
        /\ rv[r].pc = "done" /\ rv[r].update_applied
        /\ rv[r].transaction.row.reversal_status = "PENDING"
        /\ rv[r].transaction.row.reversal_reference.kind = "id"
        /\ rv[r].stored.reversal_reference # rv[r].transaction.row.reversal_reference

\* C27: a step changes a row of the external table only as the update of a
\* request for that very transaction: the row stays, its transaction status
\* stays, its reversal status becomes PENDING and its reference a reversal
\* id; every other row is left as it was.
Thm_C27 ==
    [][\A id \in TxnIds :
          txns'[id] # txns[id] =>
              /\ \E r \in Reqs :
                    /\ rv[r].pc = "update" /\ rv[r].txn_id = id
                    /\ rv'[r].updates = rv[r].updates + 1
                    /\ txns'[id].reversal_reference = rv[r].result.reversal_id
              /\ txns'[id].exists /\ txns[id].exists
              /\ txns'[id].txn_status = txns[id].txn_status
              /\ txns'[id].reversal_status = "PENDING"]_allVars

\* An update was applied next to a row that holds what the system never
\* writes.
Wit_C27 ==
    \E r \in Reqs, id \in TxnIds :
        /\ rv[r].pc = "done" /\ rv[r].update_applied
        /\ id # rv[r].txn_id
        /\ txns[id].exists /\ txns[id].reversal_status = "COMPLETED"

\* C28: a request without a reversal reason is answered with the message
\* that the reason is required before anything else: no lookup, no call of
\* the dispatcher, no update.
Thm_C28 ==
    \A r \in Reqs :
        (rv[r].pc = "done" /\ rv[r].reason = "") =>
            /\ rv[r].lookups = 0
            /\ rv[r].dispatches = 0
            /\ rv[r].updates = 0
            /\ rv[r].resp = RevRedirect("transaction_details", "danger",
                                "Reversal reason is required", NullRef)

Wit_C28 ==
    \E r \in Reqs :
        /\ rv[r].pc = "done" /\ rv[r].reason = ""
        /\ txns[rv[r].txn_id] = Row("COMPLETED", Null, NullRef)

----------------------------------------------------------------------------
(* Transaction search and details: the query service and its handlers *)

\* A column value as the driver hands it over: a string, a number, a
\* datetime, or None for SQL NULL.
Str(v) == [type |-> "str", v |-> v]
Number(v) == [type |-> "number", v |-> v]
DateTime(v) == [type |-> "datetime", v |-> v]
SqlNull == [type |-> "NoneType", v |-> ""]

Day1 == "2024-01-01"
Day2 == "2024-01-02"

\* A point in time as a count of half days, for the comparisons of the
\* query: TO_DATE of a day is its midnight.
Midnight(day) == IF day = Day1 THEN 0 ELSE 2
TimeOf(ts) == IF ts = "2024-01-01T12:00:00" THEN 1 ELSE 2
DayOf(ts) == IF ts = "2024-01-01T12:00:00" THEN Day1 ELSE Day2

\* The row of transaction id in the external table, in the columns the
\* search selects (txn_type and created_date are left out).  T1 has every
\* column set; T2 has NULL in its nullable columns.
StoredTransaction(id) ==
    [TXN_ID |-> Str(id),
     TXN_AMOUNT |-> IF id = "T1" THEN Number("10.00") ELSE SqlNull,
     TXN_STATUS |-> Str(txns[id].txn_status),
     TXN_DATE |-> IF id = "T1" THEN DateTime("2024-01-01T12:00:00")
                  ELSE DateTime("2024-01-02T00:00:00"),
     ACCOUNT_NUMBER |-> Str("A1"),
     REFERENCE_NUMBER |-> IF id = "T1" THEN Str("X1") ELSE SqlNull,
     MERCHANT_NAME |-> IF id = "T1" THEN Str("M") ELSE SqlNull]

Columns ==
    {"TXN_ID", "TXN_AMOUNT", "TXN_STATUS", "TXN_DATE", "ACCOUNT_NUMBER",
     "REFERENCE_NUMBER", "MERCHANT_NAME"}

\* The five criteria of the search form, in the code's order.
CriteriaKeys ==
    <<"txn_id", "account_number", "reference_number", "date_from", "date_to">>

FieldValues(k) ==
    CASE k = "txn_id" -> {"", "T1"}
      [] k = "account_number" -> {"", "A1"}
      [] k = "reference_number" -> {"", "X1"}
      [] k = "date_from" -> {"", Day1, Day2}
      [] k = "date_to" -> {"", Day1, Day2}

\* What a client can post to the search: every field, every field but the
\* transaction id, or no field at all; a field's value can be empty.
SearchForms ==
    UNION { { f \in [K -> {"", "T1", "A1", "X1", Day1, Day2}] :
                \A k \in K : f[k] \in FieldValues(k) } :
            K \in { ToSet(CriteriaKeys), ToSet(CriteriaKeys) \ {"txn_id"}, {} } }

\* Where the external store fails: nowhere, the driver is not installed
\* (ORACLE_AVAILABLE is False), the connection is refused, or the statement
\* fails after the connection was opened.
FailPoints == {"none", "unavailable", "connect", "execute"}

\* A plausible slip: only the missing fields are removed.
RemoveEmpty_keeps_blank(form) == form

\* {k: v for k, v in search_criteria.items() if v}: request.form.get gives
\* None for a missing field, and None and '' are both dropped.
RemoveEmpty(form) == [k \in {x \in DOMAIN form : form[x] # ""} |-> form[k]]

\* search_criteria.get(k) is true
Supplied(search_criteria, k) ==
    k \in DOMAIN search_criteria /\ search_criteria[k] # ""

\* The condition the code appends for criterion k.
ConditionFor(k) ==
    CASE k = "txn_id" -> [column |-> "TXN_ID", op |-> "=", param |-> k]
      [] k = "account_number" -> [column |-> "ACCOUNT_NUMBER", op |-> "=", param |-> k]
      [] k = "reference_number" -> [column |-> "REFERENCE_NUMBER", op |-> "=", param |-> k]
      [] k = "date_from" -> [column |-> "TXN_DATE", op |-> ">=", param |-> k]
      [] k = "date_to" -> [column |-> "TXN_DATE", op |-> "<=", param |-> k]

\* The conditions appended for the criteria keys[i..], in order.
RECURSIVE ConditionsFrom(_, _, _)
ConditionsFrom(keys, i, search_criteria) ==
    IF i > Len(keys) THEN <<>>
    ELSE (IF Supplied(search_criteria, keys[i])
          THEN <<ConditionFor(keys[i])>> ELSE <<>>)
         \o ConditionsFrom(keys, i + 1, search_criteria)

\* A plausible slip: the upper bound of the date range is forgotten.
Conditions_without_date_to(search_criteria) ==
    ConditionsFrom(SubSeq(CriteriaKeys, 1, 4), 1, search_criteria)

\* The list conditions of search_transactions: five tests, five appends.
Conditions(search_criteria) == ConditionsFrom(CriteriaKeys, 1, search_criteria)

\* Whether a stored row passes one condition of the WHERE clause, the
\* parameter bound to the criterion's value.  A NULL column passes none.
Passes(row, cond, search_criteria) ==
    LET value == row[cond.column]
        param == search_criteria[cond.param]
    IN  /\ value.type # "NoneType"
        /\ CASE cond.op = "=" -> value.v = param
             [] cond.op = ">=" -> TimeOf(value.v) >= Midnight(param)
             [] cond.op = "<=" -> TimeOf(value.v) <= Midnight(param)

\* ORDER BY txn_date DESC, for a set of ids.
RECURSIVE NewestFirst(_)
NewestFirst(ids) ==
    IF ids = {} THEN <<>>
    ELSE LET m == CHOOSE x \in ids : \A y \in ids :
                      TimeOf(StoredTransaction(x).TXN_DATE.v)
                          >= TimeOf(StoredTransaction(y).TXN_DATE.v)
         IN  <<m>> \o NewestFirst(ids \ {m})

\* The conversion of search_transactions: a datetime becomes its isoformat
\* string; nothing else is changed.
SearchRecord(row) ==
    [c \in Columns |-> IF row[c].type = "datetime" THEN Str(row[c].v) ELSE row[c]]

\* Whether the connection a service opened is open or closed when the
\* service returns.  On the success path the code closes it.  On a failure
\* after it was opened the except branch closes nothing: the connection is
\* closed only if the interpreter finalises the unreferenced object (gc).
ConnectionAfter(fail, gc) ==
    [opened |-> fail \in {"none", "execute"},
     closed |-> fail = "none" \/ (fail = "execute" /\ gc)]

\* A plausible slip: the except branch re-raises.
SearchFailure_reraise == [raised |-> TRUE, transactions |-> <<>>]

\* The except branch of search_transactions: the error is logged and an
\* empty list returned.
SearchFailure == [raised |-> FALSE, transactions |-> <<>>]

\* search_transactions: the connection, the conditions, the query and the
\* conversion of the rows.  connects counts the calls of
\* get_oracle_connection, which raises when the driver is not installed.
search_transactions(search_criteria, fail, gc) ==
    LET conn == ConnectionAfter(fail, gc)
        conditions == IF conn.opened THEN Conditions(search_criteria) ELSE <<>>
        ids == {id \in TxnIds :
                   /\ txns[id].exists
                   /\ \A i \in 1..Len(conditions) :
                         Passes(StoredTransaction(id), conditions[i], search_criteria)}
        rows == NewestFirst(ids)
        outcome == IF fail = "none"
                   THEN [raised |-> FALSE,
                         transactions |->
                             [i \in 1..Len(rows) |-> SearchRecord(StoredTransaction(rows[i]))]]
                   ELSE SearchFailure
    IN  [raised |-> outcome.raised, transactions |-> outcome.transactions,
         conditions |-> conditions, connects |-> 1,
         opened |-> conn.opened, closed |-> conn.closed]

QueryRedirect(target, category, message) ==
    [kind |-> "redirect", target |-> target, category |-> category,
     message |-> message, transactions |-> <<>>]
QueryPage(page, transactions) ==
    [kind |-> "page", target |-> page, category |-> "", message |-> "",
     transactions |-> transactions]
NoQueryResponse ==
    [kind |-> "none", target |-> "", category |-> "", message |-> "",
     transactions |-> <<>>]

\* A plausible slip: the handler has no except branch.
HandlerBoundary_reraise(raised, page, error) ==
    [escaped |-> raised, resp |-> IF raised THEN NoQueryResponse ELSE page]

\* The try and except of a handler: an exception raised inside it is logged
\* and answered with a redirect carrying the error message.
HandlerBoundary(raised, page, error) ==
    [escaped |-> FALSE, resp |-> IF raised THEN error ELSE page]

\* The result and details pages format the amount as a number with two
\* decimals, which raises TypeError for None and for ''.
AmountFormats(amount) == amount.type = "number"

NoSearch ==
    [raised |-> FALSE, transactions |-> <<>>, conditions |-> <<>>,
     connects |-> 0, opened |-> FALSE, closed |-> FALSE]

\* The handler of POST tran-reversal/search.
search_transactions_endpoint(form, fail, gc) ==
    LET search_criteria == RemoveEmpty(form) IN
    IF DOMAIN search_criteria = {}
    THEN [search_criteria |-> search_criteria, search_calls |-> 0, search |-> NoSearch,
          escaped |-> FALSE,
          resp |-> QueryRedirect("tran_reversal_home", "warning",
                       "Please provide at least one search criterion")]
    ELSE
    LET search == search_transactions(search_criteria, fail, gc)
        page_raises == \E i \in 1..Len(search.transactions) :
                           ~AmountFormats(search.transactions[i].TXN_AMOUNT)
        b == HandlerBoundary(search.raised \/ page_raises,
                 QueryPage("transaction_results", search.transactions),
                 QueryRedirect("tran_reversal_home", "danger",
                               "Error searching transactions"))
    IN  [search_criteria |-> search_criteria, search_calls |-> 1, search |-> search,
         escaped |-> b.escaped, resp |-> b.resp]

\* The handler of GET tran-reversal/transaction/<txn_id>.
transaction_details(txn_id, fail, gc) ==
    LET transaction == get_transaction_details(txn_id, fail = "none")
        conn == ConnectionAfter(fail, gc)
        shown_amount == IF StoredTransaction(txn_id).TXN_AMOUNT = SqlNull
                        THEN Str("") ELSE StoredTransaction(txn_id).TXN_AMOUNT
        b == HandlerBoundary(transaction.found /\ ~AmountFormats(shown_amount),
                 QueryPage("transaction_details", <<>>),
                 QueryRedirect("tran_reversal_home", "danger",
                               "Error retrieving transaction details"))
    IN  [transaction |-> transaction, connects |-> 1,
         opened |-> conn.opened, closed |-> conn.closed,
         escaped |-> IF transaction.found THEN b.escaped ELSE FALSE,
         resp |-> IF ~transaction.found
                  THEN QueryRedirect("tran_reversal_home", "error",
                                     "Transaction not found")
                  ELSE b.resp]

NoQuery ==
    [kind |-> "none", form |-> <<>>, txn_id |-> "", fail |-> "none",
     search_criteria |-> <<>>, search_calls |-> 0, connects |-> 0,
     conditions |-> <<>>, transactions |-> <<>>, transaction |-> NotFound,
     raised |-> FALSE, opened |-> FALSE, closed |-> FALSE,
     escaped |-> FALSE, resp |-> NoQueryResponse]

InitQuery ==
    /\ txns \in [TxnIds -> InitialRows]
    /\ rv = <<>>
    /\ now = 0
    /\ qry = NoQuery
    /\ PureIdle
    /\ GenIdle
    /\ ScanIdle
    /\ NavIdle

\* POST tran-reversal/search
SearchTransactions ==
    \E form \in SearchForms, fail \in FailPoints, gc \in BOOLEAN :
        LET o == search_transactions_endpoint(form, fail, gc) IN
        /\ qry.kind = "none"
        /\ qry' = [NoQuery EXCEPT
                      !.kind = "search", !.form = form, !.fail = fail,
                      !.search_criteria = o.search_criteria,
                      !.search_calls = o.search_calls,
                      !.connects = o.search.connects,
                      !.conditions = o.search.conditions,
                      !.transactions = o.search.transactions,
                      !.raised = o.search.raised,
                      !.opened = o.search.opened, !.closed = o.search.closed,
                      !.escaped = o.escaped, !.resp = o.resp]
        /\ UNCHANGED <<txns, rv, now>>
        /\ UNCHANGED <<pureVars, genVars, scanVars, navVars>>

\* GET tran-reversal/transaction/<txn_id>
TransactionDetails ==
    \E txn_id \in TxnIds, fail \in FailPoints, gc \in BOOLEAN :
        LET o == transaction_details(txn_id, fail, gc) IN
        /\ qry.kind = "none"
        /\ qry' = [NoQuery EXCEPT
                      !.kind = "details", !.txn_id = txn_id, !.fail = fail,
                      !.connects = o.connects,
                      !.transaction = o.transaction,
                      !.opened = o.opened, !.closed = o.closed,
                      !.escaped = o.escaped, !.resp = o.resp]
        /\ UNCHANGED <<txns, rv, now>>
        /\ UNCHANGED <<pureVars, genVars, scanVars, navVars>>

\* The response is sent; the process waits for the next request.
QueryServed ==
    /\ qry.kind # "none"
    /\ qry' = NoQuery
    /\ UNCHANGED <<txns, rv, now>>
    /\ UNCHANGED <<pureVars, genVars, scanVars, navVars>>

NextQuery == SearchTransactions \/ TransactionDetails \/ QueryServed

SpecQuery == InitQuery /\ [][NextQuery]_allVars

----------------------------------------------------------------------------
(* What the claims about the search and details handlers speak of *)

Searched == qry.kind = "search"
Detailed == qry.kind = "details"

\* Every criterion of the posted form is empty or absent.
AllCriteriaEmpty == \A k \in DOMAIN qry.form : qry.form[k] = ""

\* C13: a search request whose five criteria are all empty or absent is
\* answered with a validation message and a redirect before the external
\* store is touched: neither search_transactions nor get_oracle_connection
\* is called.
Thm_C13 ==
    (Searched /\ AllCriteriaEmpty) =>
        /\ qry.search_calls = 0
        /\ qry.connects = 0
        /\ qry.resp = QueryRedirect("tran_reversal_home", "warning",
                          "Please provide at least one search criterion")

Wit_C13 ==
    /\ Searched /\ AllCriteriaEmpty
    /\ DOMAIN qry.form = ToSet(CriteriaKeys)
    /\ \E id \in TxnIds : txns[id].exists

\* C14: when the external store fails at any point (driver missing,
\* connection refused, statement failing), search_transactions returns the
\* empty list and get_transaction_details returns None; no exception
\* reaches the handler that called them.
Thm_C14 ==
    (qry.connects = 1 /\ qry.fail # "none") =>
        /\ ~qry.raised
        /\ Searched => qry.transactions = <<>>
        /\ Detailed => qry.transaction = NotFound

Wit_C14 ==
    /\ Searched /\ qry.connects = 1 /\ qry.fail = "unavailable"
    /\ qry.search_criteria = [txn_id |-> "T1"]
    /\ txns["T1"].exists

\* The comparison the claim names for each criterion.
ExpectedOp(k) ==
    IF k = "date_from" THEN ">=" ELSE IF k = "date_to" THEN "<=" ELSE "="

DayLE(a, b) == a = Day1 \/ b = Day2

\* A returned record meets criterion k with value v.
Satisfies(record, k, v) ==
    CASE k = "txn_id" -> record.TXN_ID = Str(v)
      [] k = "account_number" -> record.ACCOUNT_NUMBER = Str(v)
      [] k = "reference_number" -> record.REFERENCE_NUMBER = Str(v)
      [] k = "date_from" -> DayLE(v, DayOf(record.TXN_DATE.v))
      [] k = "date_to" -> DayLE(DayOf(record.TXN_DATE.v), v)

\* C15: the filter search_transactions builds has exactly one condition for
\* each criterion that is not empty, with the comparison of that criterion,
\* and none for an empty or absent one; every returned row meets every
\* supplied criterion.
Thm_C15 ==
    (Searched /\ qry.search_calls = 1 /\ qry.opened) =>
        /\ Len(qry.conditions)
              = Cardinality({k \in ToSet(CriteriaKeys) : Supplied(qry.form, k)})
        /\ \A k \in ToSet(CriteriaKeys) :
              Supplied(qry.form, k) <=>
                  \E i \in 1..Len(qry.conditions) :
                      /\ qry.conditions[i].param = k
                      /\ qry.conditions[i].op = ExpectedOp(k)
        /\ \A i \in 1..Len(qry.transactions) :
              \A k \in ToSet(CriteriaKeys) :
                  Supplied(qry.form, k) =>
                      Satisfies(qry.transactions[i], k, qry.form[k])

Wit_C15 ==
    /\ Searched /\ qry.search_calls = 1 /\ qry.fail = "none"
    /\ Len(qry.conditions) = 2
    /\ Supplied(qry.form, "date_to")
    /\ Len(qry.transactions) = 1
    /\ \A id \in TxnIds : txns[id].exists

\* C16: no record returned by search_transactions or by
\* get_transaction_details holds a datetime or a null: dates have become
\* strings and nulls the empty string.
Orig_C16 ==
    /\ Searched =>
          \A i \in 1..Len(qry.transactions) : \A c \in Columns :
              qry.transactions[i][c].type \notin {"datetime", "NoneType"}
    /\ (Detailed /\ qry.transaction.found) =>
          /\ qry.transaction.row.txn_status # Null
          /\ qry.transaction.row.reversal_status # Null
          /\ qry.transaction.row.reversal_reference # NullRef

\* C17: a connection that a request opened is closed when the request ends,
\* on the success path and on every failure path.
Orig_C17 == (qry.kind # "none" /\ qry.opened) => qry.closed

----------------------------------------------------------------------------
(* A browser following the redirects the handlers issue *)

\* The handler of GET home, the legacy route.
home == Redirect("xml_generator_home", NoFlash)

\* The handler of GET tran-reversal: the search page, always.
tran_reversal_home == QueryPage("tran_reversal_home", <<>>)

\* The handler of POST initiate-reversal/<txn_id>, run without interruption:
\* the table it leaves and the response.
initiate_reversal(txn_id, reversal_reason, lookup_ok, update_ok) ==
    IF ReasonMissing(reversal_reason)
    THEN [txns |-> txns,
          resp |-> RevRedirect("transaction_details", "danger",
                       "Reversal reason is required", NullRef)]
    ELSE
    LET transaction == get_transaction_details(txn_id, lookup_ok)
        rejection == reversal_precondition(transaction)
    IN
    IF rejection # Accepted
    THEN [txns |-> txns, resp |-> rejection]
    ELSE
    LET result == JConsoleResponse(txn_id, now) IN
    [txns |-> update_transaction_reversal_status(
                  txn_id, result.reversal_id, "PENDING", update_ok),
     resp |-> IF result.success
              THEN RevRedirect("transaction_details", "success",
                       "Reversal initiated successfully", result.reversal_id)
              ELSE RevRedirect("transaction_details", "danger",
                       "Error initiating reversal", NullRef)]

\* The routes that take a template name, and those that take a
\* transaction id.
TemplateRoutes == {"template_form", "generate_xml"}
TransactionRoutes == {"transaction_details", "initiate_reversal"}
Routes ==
    TemplateRoutes \cup TransactionRoutes \cup
    {"home", "xml_generator_home", "tran_reversal_home",
     "search_transactions_endpoint"}

\* The rows the transaction of the walk can start with: one for each
\* outcome of the eligibility checks.
NavRows ==
    { NoRow, Row("COMPLETED", Null, NullRef), Row("FAILED", Null, NullRef),
      Row("COMPLETED", "COMPLETED", NullRef) }

\* The search forms posted during the walk: no field, every field empty,
\* or the transaction id alone filled in.
NavForms ==
    { <<>>,
      [k \in ToSet(CriteriaKeys) |-> ""],
      [k \in ToSet(CriteriaKeys) |-> IF k = "txn_id" THEN "T1" ELSE ""] }

\* The browser: the route it is about to request ("" when a page is
\* displayed), the template name and the transaction id of the URL, the
\* redirects followed since the user's request, the routes that answered,
\* and the page displayed.
NoNav == [at |-> "", name |-> <<>>, txn_id |-> "", hops |-> 0,
          visited |-> <<>>, page |-> ""]

InitNav ==
    /\ files \in {f \in [TemplateNames -> FileStates] :
                    \A n \in TemplateNames : f[n] \in FileStatesOf(n)}
    /\ logs = <<>>
    /\ resp = NoResponse
    /\ last = NoRequest
    /\ shown = NoForm
    /\ folder = "present"
    /\ txns \in {t \in [TxnIds -> NavRows] : t["T2"] = NoRow}
    /\ rv = <<>>
    /\ now = 0
    /\ nav = NoNav
    /\ PureIdle
    /\ QryIdle

\* The user requests a route: a link, a form, or a typed URL.
NavRequest ==
    \E route \in Routes :
        /\ nav.at = ""
        /\ nav' = [NoNav EXCEPT
                      !.at = route,
                      !.name = IF route \in TemplateRoutes THEN TXml ELSE <<>>,
                      !.txn_id = IF route \in TransactionRoutes THEN "T1" ELSE ""]
        /\ UNCHANGED <<genVars, scanVars, revVars>>
        /\ UNCHANGED <<pureVars, qryVars>>

\* The browser receives a response of the route it requested: it displays
\* a page, and requests the target of a redirect.
Follow(response) ==
    IF response.kind = "redirect"
    THEN [nav EXCEPT !.at = response.target,
                     !.hops = @ + 1,
                     !.visited = Append(@, nav.at)]
    ELSE [nav EXCEPT !.at = "",
                     !.visited = Append(@, nav.at),
                     !.page = response.target]

NavHome ==
    /\ nav.at = "home"
    /\ nav' = Follow(home)
    /\ UNCHANGED <<genVars, scanVars, revVars>>
    /\ UNCHANGED <<pureVars, qryVars>>

NavXmlGeneratorHome ==
    /\ nav.at = "xml_generator_home"
    /\ nav' = Follow(xml_generator_home)
    /\ UNCHANGED <<genVars, scanVars, revVars>>
    /\ UNCHANGED <<pureVars, qryVars>>

NavTemplateForm ==
    /\ nav.at = "template_form"
    /\ nav' = Follow(template_form(nav.name))
    /\ UNCHANGED <<genVars, scanVars, revVars>>
    /\ UNCHANGED <<pureVars, qryVars>>

\* The log store takes MaxLog rows; a write to a full store fails.
NavGenerateXml ==
    /\ nav.at = "generate_xml"
    /\ \E form \in FormsOf(nav.name),
          db_ok \in IF Len(logs) < MaxLog THEN BOOLEAN ELSE {FALSE} :
        LET o == generate_xml(nav.name, form, db_ok) IN
        /\ logs' = o.logs
        /\ nav' = Follow(o.resp)
        /\ UNCHANGED <<files, resp, last, shown>>
        /\ UNCHANGED <<scanVars, revVars>>
        /\ UNCHANGED <<pureVars, qryVars>>

NavTranReversalHome ==
    /\ nav.at = "tran_reversal_home"
    /\ nav' = Follow(tran_reversal_home)
    /\ UNCHANGED <<genVars, scanVars, revVars>>
    /\ UNCHANGED <<pureVars, qryVars>>

NavSearchTransactions ==
    /\ nav.at = "search_transactions_endpoint"
    /\ \E form \in NavForms, fail \in FailPoints, gc \in BOOLEAN :
        /\ nav' = Follow(search_transactions_endpoint(form, fail, gc).resp)
        /\ UNCHANGED <<genVars, scanVars, revVars>>
        /\ UNCHANGED <<pureVars, qryVars>>

NavTransactionDetails ==
    /\ nav.at = "transaction_details"
    /\ \E fail \in FailPoints, gc \in BOOLEAN :
        /\ nav' = Follow(transaction_details(nav.txn_id, fail, gc).resp)
        /\ UNCHANGED <<genVars, scanVars, revVars>>
        /\ UNCHANGED <<pureVars, qryVars>>

NavInitiateReversal ==
    /\ nav.at = "initiate_reversal"
    /\ \E reason \in Reasons, lookup_ok \in BOOLEAN, update_ok \in BOOLEAN :
        LET o == initiate_reversal(nav.txn_id, reason, lookup_ok, update_ok) IN
        /\ txns' = o.txns
        /\ nav' = Follow(o.resp)
        /\ UNCHANGED <<rv, now>>
        /\ UNCHANGED <<genVars, scanVars>>
        /\ UNCHANGED <<pureVars, qryVars>>

NextNav ==
    \/ NavRequest
    \/ NavHome
    \/ NavXmlGeneratorHome
    \/ NavTemplateForm
    \/ NavGenerateXml
    \/ NavTranReversalHome
    \/ NavSearchTransactions
    \/ NavTransactionDetails
    \/ NavInitiateReversal
    \/ EditTemplate

SpecNav == InitNav /\ [][NextNav]_allVars

----------------------------------------------------------------------------
(* What the claim about the redirect chains speaks of *)

NoRepeat(s) == \A i \in 1..Len(s), j \in 1..Len(s) : s[i] = s[j] => i = j

\* C30: whatever route the user requests and whatever the stores hold or
\* become between two hops, the browser follows at most two redirects, no
\* route answers twice in one chain, the target of every redirect is a
\* route (whose handler answers in every state), and the chain ends at a
\* displayed page.
Thm_C30 ==
    /\ nav.hops <= 2
    /\ nav.hops = Len(nav.visited) - (IF nav.at = "" /\ nav.visited # <<>> THEN 1 ELSE 0)
    /\ NoRepeat(nav.visited)
    /\ nav.at \notin ToSet(nav.visited)
    /\ nav.at \in Routes \cup {""}
    /\ (nav.at = "" /\ nav.visited # <<>>) =>
          nav.page \in {"xml_generator_home", "template_form", "xml_generated",
                        "tran_reversal_home", "transaction_results",
                        "transaction_details"}

\* The generation failed, and the template was gone when the form was
\* requested.
Wit_C30 ==
    /\ nav.at = ""
    /\ nav.hops = 2
    /\ nav.visited = <<"generate_xml", "template_form", "xml_generator_home">>
    /\ nav.page = "xml_generator_home"

============================================================================
